---- MODULE Spec2Model ----
(***************************************************************************)
(* Model of the Responses gateway of src/services/copilot:                 *)
(*   - handleResponses: request sanitization, endpoint selection, the      *)
(*     primary /responses call, the /chat/completions fallback and the two *)
(*     streaming loops;                                                    *)
(*   - translateResponsesToChatPayload and its helpers;                    *)
(*   - translateChatResponseToResponses;                                   *)
(*   - translateChatChunkToResponsesEvents with its per-stream state.      *)
(* JavaScript values are encoded as follows.  A missing or null string is  *)
(* the value Undefined; a missing list or object is a flag (hasChoices,    *)
(* hasDelta, hasToolCalls) beside an empty value; a string-or-array value  *)
(* is a record with an isStr flag.  Template literals are string           *)
(* concatenations.  The payload fields that are copied through unread      *)
(* (temperature, top_p, max_output_tokens, tools, tool_choice) and the     *)
(* debug logging are left out.  stream.writeSSE is taken to complete, also  *)
(* after the client has gone away: neither loop reads the state of the     *)
(* connection, and the fallback loop catches what a write could raise.     *)
(***************************************************************************)
EXTENDS Integers, Sequences, FiniteSets, TLC

VARIABLES
    pc,           \* position of the handler
    rawBody,      \* the request body: [valid, payload]
    endpoints,    \* selectedModel?.supported_endpoints: [known, list]
    payload,      \* the handler's local payload
    lastError,    \* the handler's local lastError
    calls,        \* upstream calls made so far, in order
    reply,        \* the reply given to the client
    sseOut,       \* SSE messages passed to stream.writeSSE, in order
    streamState,  \* the fallback stream's accumulator
    pending,      \* events of the current chunk not yet written
    upstreamLog,  \* history: what the upstream delivered (object or chunks)
    produced,     \* history: events returned by the reducer, with chunk number
    fragLog,      \* history: tool-call fragments whose events were returned
    primaryError, \* history: the error raised by createResponses
    chatError,    \* history: the error raised by createChatCompletions
    client        \* the client's connection: [open, pulledAtClose]

vars == <<pc, rawBody, endpoints, payload, lastError, calls, reply, sseOut,
          streamState, pending, upstreamLog, produced, fragLog,
          primaryError, chatError, client>>

(***************************************************************************)
(* Bounds of the model.                                                    *)
(***************************************************************************)
MaxInput == 3
MaxCtlInput == 2
MaxChunks == 3
MaxCtlChunks == 2
MaxChoices == 2
MaxToolCalls == 2
MaxParts == 2
MaxTransInput == 3

(***************************************************************************)
(* JavaScript values.                                                      *)
(***************************************************************************)
Undefined == "<undefined>"

Truthy(s) == s # Undefined /\ s # ""

StrContent(s) == [isStr |-> TRUE, text |-> s, parts |-> <<>>]

PartsContent(ps) == [isStr |-> FALSE, text |-> "", parts |-> ps]

TextPart(t, s) == [type |-> t, text |-> s, image_url |-> Undefined, detail |-> Undefined]

ImagePart(u) == [type |-> "input_image", text |-> Undefined, image_url |-> u, detail |-> Undefined]

FilePart == [type |-> "input_file", text |-> Undefined, image_url |-> Undefined, detail |-> Undefined]

(***************************************************************************)
(* ResponsesInputItem: a field the variant does not have is Undefined.     *)
(***************************************************************************)
RoleItem(r, c) ==
    [type |-> Undefined, role |-> r, content |-> c, call_id |-> Undefined,
     name |-> Undefined, arguments |-> Undefined, output |-> StrContent(""),
     id |-> Undefined]

MessageInput(r, c) == [RoleItem(r, c) EXCEPT !.type = "message"]

FunctionCall(cid, n, a) ==
    [type |-> "function_call", role |-> Undefined, content |-> StrContent(""),
     call_id |-> cid, name |-> n, arguments |-> a, output |-> StrContent(""),
     id |-> Undefined]

FunctionCallOutput(cid, o) ==
    [type |-> "function_call_output", role |-> Undefined,
     content |-> StrContent(""), call_id |-> cid, name |-> Undefined,
     arguments |-> Undefined, output |-> o, id |-> Undefined]

ItemReference(i) ==
    [type |-> "item_reference", role |-> Undefined, content |-> StrContent(""),
     call_id |-> Undefined, name |-> Undefined, arguments |-> Undefined,
     output |-> StrContent(""), id |-> i]

RECURSIVE SeqsUpTo(_, _)
SeqsUpTo(S, n) ==
    IF n = 0 THEN {<<>>}
    ELSE LET shorter == SeqsUpTo(S, n - 1)
         IN  shorter \cup {Append(s, x) : s \in {t \in shorter : Len(t) = n - 1}, x \in S}

IsPrefix(s, t) == Len(s) <= Len(t) /\ \A i \in 1..Len(s) : s[i] = t[i]

(***************************************************************************)
(* Request sanitization of handleResponses.                                *)
(***************************************************************************)
FunctionCallIds(input) ==
    {input[i].call_id : i \in {j \in 1..Len(input) : input[j].type = "function_call"}}

OrphanOutputs(input) ==
    LET ids == FunctionCallIds(input)
        orphan(item) == item.type = "function_call_output" /\ item.call_id \notin ids
        orphans == SelectSeq(input, orphan)
    IN  [i \in 1..Len(orphans) |-> orphans[i].call_id]

KeepItemAll(item, ids) == TRUE

KeepItem(item, ids) ==
    IF item.type = "function_call_output" THEN item.call_id \in ids ELSE TRUE

SanitizeInputNoOutputs(input) ==
    SelectSeq(input, LAMBDA item : item.type # "function_call_output")

SanitizeInput(input) ==
    LET ids == FunctionCallIds(input)
        keep(item) == KeepItem(item, ids)
    IN  IF Len(OrphanOutputs(input)) > 0 THEN SelectSeq(input, keep) ELSE input

(***************************************************************************)
(* Request translation: Responses payload -> Chat-Completions payload.     *)
(* A chat message's content is null, a string or a list of parts.          *)
(***************************************************************************)
NullContent == [kind |-> "null", text |-> "", parts |-> <<>>]

StringContent(s) == [kind |-> "str", text |-> s, parts |-> <<>>]

ListContent(ps) == [kind |-> "parts", text |-> "", parts |-> ps]

Message(r, c) ==
    [role |-> r, content |-> c, tool_calls |-> <<>>, tool_call_id |-> Undefined]

IsTextPart(part) == part.type \in {"input_text", "output_text"}

ImageUrlParts(parts) ==
    LET images == SelectSeq(parts, LAMBDA p : p.type = "input_image")
    IN  [i \in 1..Len(images) |->
            [type |-> "image_url",
             image_url |-> [url |-> images[i].image_url, detail |-> images[i].detail]]]

translateResponsesContentToChatContentLastText(content) ==
    IF content.isStr
    THEN IF content.text = "" THEN NullContent ELSE StringContent(content.text)
    ELSE LET texts == {i \in 1..Len(content.parts) : IsTextPart(content.parts[i])}
         IN  IF texts # {}
             THEN StringContent(content.parts[CHOOSE i \in texts : \A j \in texts : i >= j].text)
             ELSE LET parts == ImageUrlParts(content.parts)
                  IN  IF Len(parts) > 0 THEN ListContent(parts) ELSE NullContent

translateResponsesContentToChatContent(content) ==
    IF content.isStr
    THEN IF content.text = "" THEN NullContent ELSE StringContent(content.text)
    ELSE LET texts == {i \in 1..Len(content.parts) : IsTextPart(content.parts[i])}
         IN  IF texts # {}
             THEN StringContent(content.parts[CHOOSE i \in texts : \A j \in texts : i <= j].text)
             ELSE LET parts == ImageUrlParts(content.parts)
                  IN  IF Len(parts) > 0 THEN ListContent(parts) ELSE NullContent

RECURSIVE JoinOutputText(_)
JoinOutputText(parts) ==
    IF parts = <<>> THEN ""
    ELSE (IF Head(parts).type = "output_text" THEN Head(parts).text ELSE "")
         \o JoinOutputText(Tail(parts))

ToolCall(i, n, a) == [id |-> i, type |-> "function", name |-> n, arguments |-> a]

\* The messages an input item contributes: none (null) or one.
translateInputItemToMessage(item) ==
    CASE item.role = "system" -> <<Message("system", StringContent(item.content.text))>>
      [] item.role = "developer" -> <<Message("developer", StringContent(item.content.text))>>
      [] item.role = "user" ->
            <<Message("user", translateResponsesContentToChatContent(item.content))>>
      [] item.role = "assistant" ->
            <<Message("assistant", translateResponsesContentToChatContent(item.content))>>
      [] OTHER ->
            CASE item.type = "function_call" ->
                    <<[Message("assistant", NullContent) EXCEPT
                          !.tool_calls = <<ToolCall(item.call_id, item.name, item.arguments)>>]>>
              [] item.type = "function_call_output" ->
                    <<[Message("tool",
                               StringContent(IF item.output.isStr THEN item.output.text
                                             ELSE JoinOutputText(item.output.parts)))
                          EXCEPT !.tool_call_id = item.call_id]>>
              [] OTHER -> <<>>

RECURSIVE TranslateItemsReversed(_)
TranslateItemsReversed(input) ==
    IF input = <<>> THEN <<>>
    ELSE TranslateItemsReversed(Tail(input)) \o translateInputItemToMessage(Head(input))

RECURSIVE TranslateItems(_)
TranslateItems(input) ==
    IF input = <<>> THEN <<>>
    ELSE translateInputItemToMessage(Head(input)) \o TranslateItems(Tail(input))

translateResponsesToChatPayload(responsesPayload) ==
    [model |-> responsesPayload.model,
     messages |->
        (IF Truthy(responsesPayload.instructions)
         THEN <<Message("system", StringContent(responsesPayload.instructions))>>
         ELSE <<>>) \o TranslateItems(responsesPayload.input),
     stream |-> responsesPayload.stream]

(***************************************************************************)
(* Response translation: Chat-Completions response -> Responses response.  *)
(***************************************************************************)
RECURSIVE ToolCallItems(_)
ToolCallItems(toolCalls) ==
    IF toolCalls = <<>> THEN <<>>
    ELSE <<[type |-> "function_call", id |-> Head(toolCalls).id,
            call_id |-> Head(toolCalls).id, name |-> Head(toolCalls).name,
            arguments |-> Head(toolCalls).arguments, status |-> "completed"]>>
         \o ToolCallItems(Tail(toolCalls))

ChoiceItemsToolsFirst(chatResponse, choice) ==
    ToolCallItems(choice.message.tool_calls)
    \o (IF Truthy(choice.message.content)
        THEN <<[type |-> "message",
                id |-> "msg_" \o chatResponse.id \o "_" \o ToString(choice.index),
                role |-> "assistant",
                content |-> <<[type |-> "output_text", text |-> choice.message.content]>>,
                status |-> "completed"]>>
        ELSE <<>>)

ChoiceItems(chatResponse, choice) ==
    (IF Truthy(choice.message.content)
     THEN <<[type |-> "message",
             id |-> "msg_" \o chatResponse.id \o "_" \o ToString(choice.index),
             role |-> "assistant",
             content |-> <<[type |-> "output_text", text |-> choice.message.content]>>,
             status |-> "completed"]>>
     ELSE <<>>)
    \o ToolCallItems(choice.message.tool_calls)

RECURSIVE OutputItems(_, _)
OutputItems(chatResponse, choices) ==
    IF choices = <<>> THEN <<>>
    ELSE ChoiceItems(chatResponse, Head(choices)) \o OutputItems(chatResponse, Tail(choices))

translateChatResponseToResponses(chatResponse) ==
    [id |-> chatResponse.id, object |-> "response", model |-> chatResponse.model,
     output |-> OutputItems(chatResponse, chatResponse.choices),
     status |-> "completed"]

(***************************************************************************)
(* The streaming reducer translateChatChunkToResponsesEvents.              *)
(* The accumulator acc threads the reducer's mutable state (st), its       *)
(* events array (evs) and whether a TypeError was raised (threw); frags    *)
(* records, for each tool-call fragment processed, the id its events       *)
(* reference.                                                              *)
(***************************************************************************)
NewStreamState ==
    [responseId |-> "", sentCreated |-> FALSE, currentItemIndex |-> 0,
     toolCallIds |-> <<>>]

MapGet(m, k) == IF k \in DOMAIN m THEN m[k] ELSE Undefined

MapSet(m, k, v) == [i \in DOMAIN m \cup {k} |-> IF i = k THEN v ELSE m[i]]

Placeholder(index) == "call_" \o ToString(index)

CreatedEvent(chunk) ==
    [type |-> "response.created",
     response |-> [id |-> chunk.id, created_at |-> chunk.created, model |-> chunk.model]]

TextDeltaEvent(chunk, choice) ==
    [type |-> "response.output_text.delta",
     item_id |-> "msg_" \o chunk.id \o "_" \o ToString(choice.index),
     output_index |-> choice.index,
     delta |-> choice.delta.content]

ItemAddedEvent(tc, ref) ==
    [type |-> "response.output_item.added",
     output_index |-> tc.index,
     item |-> [type |-> "function_call", id |-> ref, call_id |-> ref,
               name |-> tc.name, arguments |-> ""]]

ArgumentsDeltaEvent(tc, ref) ==
    [type |-> "response.function_call_arguments.delta",
     item_id |-> ref, output_index |-> tc.index, delta |-> tc.arguments]

CompletedEvent(chunk) ==
    [type |-> "response.completed",
     response |-> [id |-> chunk.id, status |-> "completed"]]

\* const toolCallId = state.toolCallIds.get(tc.index) || tc.id
LookupToolCallId(state, tc) ==
    IF Truthy(MapGet(state.toolCallIds, tc.index))
    THEN MapGet(state.toolCallIds, tc.index)
    ELSE tc.id

\* toolCallId || `call_${tc.index}`
ToolCallRef(state, tc) ==
    IF Truthy(LookupToolCallId(state, tc)) THEN LookupToolCallId(state, tc)
    ELSE Placeholder(tc.index)

ProcessToolCall(tc, choice, acc) ==
    LET ref == ToolCallRef(acc.st, tc)
        added == IF Truthy(tc.name) THEN <<ItemAddedEvent(tc, ref)>> ELSE <<>>
        args == IF Truthy(tc.arguments) THEN <<ArgumentsDeltaEvent(tc, ref)>> ELSE <<>>
    IN  [acc EXCEPT
            !.st.toolCallIds =
                IF Truthy(tc.id) THEN MapSet(@, tc.index, tc.id) ELSE @,
            !.evs = @ \o added \o args,
            !.frags = Append(@, [choice |-> choice.index, index |-> tc.index,
                                 id |-> tc.id, ref |-> ref, name |-> tc.name,
                                 added |-> added,
                                 events |-> Len(added) + Len(args)])]

RECURSIVE ProcessToolCalls(_, _, _)
ProcessToolCalls(tcs, choice, acc) ==
    IF tcs = <<>> THEN acc
    ELSE ProcessToolCalls(Tail(tcs), choice, ProcessToolCall(Head(tcs), choice, acc))

\* One iteration of "for (const choice of chunk.choices)"; reading
\* delta.content of a choice without delta raises.
ProcessChoice(chunk, choice, acc) ==
    IF ~choice.hasDelta THEN [acc EXCEPT !.threw = TRUE]
    ELSE LET a1 == IF Truthy(choice.delta.content)
                   THEN [acc EXCEPT !.evs = Append(@, TextDeltaEvent(chunk, choice))]
                   ELSE acc
             a2 == IF choice.delta.hasToolCalls
                   THEN ProcessToolCalls(choice.delta.tool_calls, choice, a1)
                   ELSE a1
         IN  IF Truthy(choice.finish_reason)
             THEN [a2 EXCEPT !.evs = Append(@, CompletedEvent(chunk))]
             ELSE a2

RECURSIVE ProcessChoices(_, _, _)
ProcessChoices(chunk, choices, acc) ==
    IF choices = <<>> \/ acc.threw THEN acc
    ELSE ProcessChoices(chunk, Tail(choices), ProcessChoice(chunk, Head(choices), acc))

\* if (!state.sentCreated) { ... }
EmitCreated(chunk, state) ==
    IF ~state.sentCreated
    THEN [st |-> [state EXCEPT !.sentCreated = TRUE, !.responseId = chunk.id],
          evs |-> <<CreatedEvent(chunk)>>, frags |-> <<>>, threw |-> FALSE]
    ELSE [st |-> state, evs |-> <<>>, frags |-> <<>>, threw |-> FALSE]

\* Iterating a missing chunk.choices raises.
translateChatChunkToResponsesEvents(chunk, state) ==
    LET a0 == EmitCreated(chunk, state)
    IN  IF ~chunk.hasChoices THEN [a0 EXCEPT !.threw = TRUE]
        ELSE ProcessChoices(chunk, chunk.choices, a0)

(***************************************************************************)
(* Inputs of the model: request bodies, model metadata, upstream results.  *)
(***************************************************************************)
UserHi == RoleItem("user", StrContent("hi"))

Items ==
    {UserHi, ItemReference("ref_1"),
     FunctionCall("a", "foo", "{}"), FunctionCall("b", "bar", "{}"),
     FunctionCallOutput("a", StrContent("1")), FunctionCallOutput("b", StrContent("2"))}

\* Every content of a user or assistant message: a string, or up to MaxParts
\* parts.
ContentParts ==
    {TextPart("input_text", "a"), TextPart("output_text", "b"), TextPart("input_text", ""),
     ImagePart("u1"), ImagePart("u2"), FilePart}

Contents ==
    {StrContent(t) : t \in {"", "hi"}}
    \cup {PartsContent(ps) : ps \in SeqsUpTo(ContentParts, MaxParts)}

\* One item of every declared variant of ResponsesInputItem.
TransItems ==
    {RoleItem("system", StrContent("sys")), RoleItem("developer", StrContent("dev")),
     UserHi, RoleItem("assistant", StrContent("ok")),
     MessageInput("user", PartsContent(<<TextPart("input_text", "a")>>)),
     FunctionCall("a", "foo", "{}"),
     FunctionCallOutput("a", StrContent("1")),
     FunctionCallOutput("a", PartsContent(<<TextPart("output_text", "x"), ImagePart("u1")>>)),
     ItemReference("ref_1")}

CtlItems == {UserHi, FunctionCall("a", "foo", "{}"), FunctionCallOutput("a", StrContent("1"))}

Payload(input, instructions, stream) ==
    [model |-> "m", input |-> input, instructions |-> instructions, stream |-> stream]

CtlPayloads ==
    {Payload(input, instructions, stream) :
        input \in SeqsUpTo(CtlItems, MaxCtlInput),
        instructions \in {Undefined, "be brief"},
        stream \in BOOLEAN}

NoPayload == Payload(<<>>, Undefined, FALSE)

\* selectedModel?.supported_endpoints: missing, or a list of endpoints.
EndpointLists ==
    {[known |-> FALSE, list |-> {}]}
    \cup {[known |-> TRUE, list |-> l] : l \in SUBSET {"/responses", "/chat/completions"}}

NoError == [kind |-> "none", status |-> 0]

HTTPError(status) == [kind |-> "HTTPError", status |-> status]

Errors ==
    {HTTPError(s) : s \in {400, 401, 403, 404, 422, 429, 500, 503}}
    \cup {[kind |-> "Error", status |-> 0]}

UpstreamResponses ==
    {[id |-> "resp_1", object |-> "response", model |-> "m", output |-> <<>>,
      status |-> "completed"],
     [id |-> "resp_2", object |-> "response", model |-> "m", output |-> <<>>,
      status |-> "incomplete"]}

ChatChoice(index, content, toolCalls) ==
    [index |-> index, message |-> [content |-> content, tool_calls |-> toolCalls]]

ChatResponse(id, choices) == [id |-> id, model |-> "m", choices |-> choices]

ChatResponses ==
    {ChatResponse("chat_1", <<ChatChoice(0, "hello", <<>>)>>),
     ChatResponse("chat_2", <<ChatChoice(0, "hello", <<ToolCall("tc_A", "foo", "{}")>>)>>)}

\* Every response of up to MaxChoices choices, each with null, empty or
\* non-empty content and up to MaxToolCalls tool calls; a choice's index is
\* its position.
ChatToolCalls == {ToolCall("tc_A", "foo", "{x}"), ToolCall("tc_B", "bar", "{y}")}

ChatMessages ==
    {[content |-> c, tool_calls |-> tcs] :
        c \in {Undefined, "", "hello"}, tcs \in SeqsUpTo(ChatToolCalls, MaxToolCalls)}

AllChatResponses ==
    {ChatResponse("chat_1", [i \in 1..Len(ms) |->
                                ChatChoice(i - 1, ms[i].content, ms[i].tool_calls)]) :
        ms \in SeqsUpTo(ChatMessages, MaxChoices)}

PrimaryChunks == {[event |-> "response.created", data |-> "{1}"],
                  [event |-> "response.completed", data |-> "{2}"]}

(***************************************************************************)
(* Chat-Completions stream chunks.  An SSE chunk carries a data string;    *)
(* JSONparse gives the value a data string parses to.                      *)
(***************************************************************************)
Delta(content) == [content |-> content, hasToolCalls |-> FALSE, tool_calls |-> <<>>]

ToolDelta(tcs) == [content |-> Undefined, hasToolCalls |-> TRUE, tool_calls |-> tcs]

Frag(index, id, name, arguments) ==
    [index |-> index, id |-> id, name |-> name, arguments |-> arguments]

Choice(index, delta, finish) ==
    [index |-> index, hasDelta |-> TRUE, delta |-> delta, finish_reason |-> finish]

ChoiceNoDelta(index) ==
    [index |-> index, hasDelta |-> FALSE, delta |-> Delta(Undefined),
     finish_reason |-> Undefined]

ChoiceNoDeltaFinished(index, finish) ==
    [index |-> index, hasDelta |-> FALSE, delta |-> Delta(Undefined),
     finish_reason |-> finish]

Chunk(id, choices) ==
    [id |-> id, model |-> "gpt", created |-> 1, hasChoices |-> TRUE, choices |-> choices]

ChunkNoChoices(id) ==
    [id |-> id, model |-> "gpt", created |-> 1, hasChoices |-> FALSE, choices |-> <<>>]

JsonTable ==
    ("{role}" :> Chunk("r1", <<Choice(0, Delta(Undefined), Undefined)>>))
    @@ ("{text0}" :> Chunk("r1", <<Choice(0, Delta("Hel"), Undefined)>>))
    @@ ("{text1}" :> Chunk("r1", <<Choice(1, Delta("Wor"), Undefined)>>))
    @@ ("{text0,r2}" :> Chunk("r2", <<Choice(0, Delta("lo"), Undefined)>>))
    @@ ("{tool0}" :>
            Chunk("r1", <<Choice(0, ToolDelta(<<Frag(0, "tc_A", "foo", Undefined)>>), Undefined)>>))
    @@ ("{args0}" :>
            Chunk("r1", <<Choice(0, ToolDelta(<<Frag(0, Undefined, Undefined, "{x}")>>), Undefined)>>))
    @@ ("{tool0,again}" :>
            Chunk("r1", <<Choice(0, ToolDelta(<<Frag(0, "tc_A", "foo", "{w}")>>), Undefined)>>))
    @@ ("{tool1}" :>
            Chunk("r1", <<Choice(1, ToolDelta(<<Frag(0, "tc_B", "bar", Undefined)>>), Undefined)>>))
    @@ ("{args1}" :>
            Chunk("r1", <<Choice(1, ToolDelta(<<Frag(0, Undefined, Undefined, "{y}")>>), Undefined)>>))
    @@ ("{anon}" :>
            Chunk("r1", <<Choice(0, ToolDelta(<<Frag(1, Undefined, "baz", "{z}")>>), Undefined)>>))
    @@ ("{stop}" :> Chunk("r1", <<Choice(0, Delta(Undefined), "stop")>>))
    @@ ("{both}" :>
            Chunk("r1", <<Choice(0, Delta("a"), "stop"), Choice(1, Delta("b"), Undefined)>>))
    @@ ("{nochoices}" :> ChunkNoChoices("r1"))
    @@ ("{nodelta}" :> Chunk("r1", <<Choice(0, Delta("Hel"), Undefined), ChoiceNoDelta(1)>>))
    @@ ("{stop,nodelta}" :> Chunk("r1", <<ChoiceNoDeltaFinished(0, "stop")>>))

\* JSON.parse(data): the parsed value, or a SyntaxError.
JSONparse(data) ==
    IF data \in DOMAIN JsonTable
    THEN [ok |-> TRUE, value |-> JsonTable[data]]
    ELSE [ok |-> FALSE, value |-> ChunkNoChoices("")]

\* JSON.stringify(event): the event's JSON text.
JSONstringify(event) == [json |-> event]

SSEChunk(data) == [data |-> data]

Chunks == {SSEChunk(d) : d \in {Undefined, "[DONE]", "not json"} \cup DOMAIN JsonTable}

CtlChunks == {SSEChunk(d) : d \in {"[DONE]", "{text0}", "{stop}"}}

(***************************************************************************)
(* handleResponses.  Each action is the code between two awaits.           *)
(***************************************************************************)
\* The client's connection to the gateway; pulledAtClose is the number of
\* upstream chunks that had been read when the client went away.
Connected == [open |-> TRUE, pulledAtClose |-> 0]

NoReply == [kind |-> "none"]

JsonReply(body) == [kind |-> "json", status |-> 200, body |-> body]

ErrorReply(status, message) == [kind |-> "error", status |-> status, message |-> message]

\* forwardError(c, error)
ForwardError(error) == [kind |-> "forwarded", error |-> error]

SseReply == [kind |-> "sse", status |-> 200]

InvalidJson == ErrorReply(400, "Invalid JSON body")

UnsupportedModel == ErrorReply(400, "Model does not support any compatible endpoint")

ResponsesCall(p) == [endpoint |-> "/responses", payload |-> p]

ChatCallPrimaryAgain(p) == [endpoint |-> "/responses", payload |-> p]

ChatCall(p) == [endpoint |-> "/chat/completions", payload |-> p]

supportsResponsesEmptyList ==
    ~endpoints.known \/ endpoints.list = {} \/ "/responses" \in endpoints.list

supportsResponses == ~endpoints.known \/ "/responses" \in endpoints.list

supportsChatCompletions == ~endpoints.known \/ "/chat/completions" \in endpoints.list

shouldFallbackToChatAnyStatus(error, supportsChat) ==
    IF ~supportsChat THEN FALSE ELSE error.kind = "HTTPError"

shouldFallbackToChat(error, supportsChat) ==
    IF ~supportsChat THEN FALSE
    ELSE IF error.kind # "HTTPError" THEN FALSE
    ELSE error.status = 400 \/ error.status = 404 \/ error.status = 422

Init ==
    /\ pc = "rate_limit"
    /\ rawBody \in {[valid |-> FALSE, payload |-> NoPayload]}
                   \cup {[valid |-> TRUE, payload |-> p] : p \in CtlPayloads}
    /\ endpoints \in EndpointLists
    /\ payload = NoPayload
    /\ lastError = NoError
    /\ calls = <<>>
    /\ reply = NoReply
    /\ sseOut = <<>>
    /\ streamState = NewStreamState
    /\ pending = <<>>
    /\ upstreamLog = <<>>
    /\ produced = <<>>
    /\ fragLog = <<>>
    /\ primaryError = NoError
    /\ chatError = NoError
    /\ client = Connected

\* await checkRateLimit(state): returns, or raises out of the handler.
CheckRateLimit ==
    /\ pc = "rate_limit"
    /\ \E ok \in BOOLEAN : pc' = IF ok THEN "parse" ELSE "thrown"
    /\ UNCHANGED <<client, rawBody, endpoints, payload, lastError, calls, reply, sseOut,
                   streamState, pending, upstreamLog, produced, fragLog,
                   primaryError, chatError>>

\* payload = JSON.parse(rawBody), or the 400 reply.
ParseBody ==
    /\ pc = "parse"
    /\ IF rawBody.valid
       THEN /\ payload' = rawBody.payload
            /\ pc' = "sanitize"
            /\ reply' = reply
       ELSE /\ reply' = InvalidJson
            /\ pc' = "done"
            /\ payload' = payload
    /\ UNCHANGED <<client, rawBody, endpoints, lastError, calls, sseOut, streamState,
                   pending, upstreamLog, produced, fragLog, primaryError, chatError>>

\* The orphan function_call_output filter.
Sanitize ==
    /\ pc = "sanitize"
    /\ payload' = [payload EXCEPT !.input = SanitizeInput(@)]
    /\ pc' = "select"
    /\ UNCHANGED <<client, rawBody, endpoints, lastError, calls, reply, sseOut, streamState,
                   pending, upstreamLog, produced, fragLog, primaryError, chatError>>

\* The code after the primary block, entered with lastError = error:
\* the fallback call, or a terminal reply.
AfterPrimary(error) ==
    IF supportsChatCompletions /\ error # NoError
    THEN /\ calls' = Append(calls, ChatCall(translateResponsesToChatPayload(payload)))
         /\ pc' = "await_chat"
         /\ reply' = reply
    ELSE /\ reply' = IF error # NoError THEN ForwardError(error) ELSE UnsupportedModel
         /\ pc' = "done"
         /\ calls' = calls

\* if (supportsResponses) { createResponses(payload) ... }
TryPrimary ==
    /\ pc = "select"
    /\ supportsResponses
    /\ calls' = Append(calls, ResponsesCall(payload))
    /\ pc' = "await_responses"
    /\ UNCHANGED <<client, rawBody, endpoints, payload, lastError, reply, sseOut, streamState,
                   pending, upstreamLog, produced, fragLog, primaryError, chatError>>

SkipPrimary ==
    /\ pc = "select"
    /\ ~supportsResponses
    /\ AfterPrimary(lastError)
    /\ UNCHANGED <<client, rawBody, endpoints, payload, lastError, sseOut, streamState,
                   pending, upstreamLog, produced, fragLog, primaryError, chatError>>

\* createResponses returns response.json(): c.json(response).
ResponsesReturnsObject ==
    /\ pc = "await_responses"
    /\ ~payload.stream
    /\ \E response \in UpstreamResponses :
        /\ upstreamLog' = <<response>>
        /\ reply' = JsonReply(response)
    /\ pc' = "done"
    /\ UNCHANGED <<client, rawBody, endpoints, payload, lastError, calls, sseOut, streamState,
                   pending, produced, fragLog, primaryError, chatError>>

\* createResponses returns events(response): streamSSE(c, ...).
ResponsesReturnsStream ==
    /\ pc = "await_responses"
    /\ payload.stream
    /\ reply' = SseReply
    /\ pc' = "primary_stream"
    /\ UNCHANGED <<client, rawBody, endpoints, payload, lastError, calls, sseOut, streamState,
                   pending, upstreamLog, produced, fragLog, primaryError, chatError>>

\* createResponses raises: the catch block, then the code after it.
ResponsesFails ==
    /\ pc = "await_responses"
    /\ \E error \in Errors :
        /\ primaryError' = error
        /\ lastError' = error
        /\ IF ~shouldFallbackToChat(error, supportsChatCompletions)
           THEN /\ reply' = ForwardError(error)
                /\ pc' = "done"
                /\ calls' = calls
           ELSE AfterPrimary(error)
    /\ UNCHANGED <<client, rawBody, endpoints, payload, sseOut, streamState, pending,
                   upstreamLog, produced, fragLog, chatError>>

\* for await (const chunk of response): the next chunk arrives.
PrimaryPull ==
    /\ pc = "primary_stream"
    /\ Len(upstreamLog) < MaxCtlChunks
    /\ \E chunk \in PrimaryChunks :
        /\ upstreamLog' = Append(upstreamLog, chunk)
        /\ pending' = <<chunk>>
    /\ pc' = "primary_write"
    /\ UNCHANGED <<client, rawBody, endpoints, payload, lastError, calls, reply, sseOut,
                   streamState, produced, fragLog, primaryError, chatError>>

PrimaryMessageStringified(chunk) == [data |-> JSONstringify(chunk)]

\* chunk as SSEMessage
PrimaryMessage(chunk) == chunk

\* await stream.writeSSE(chunk)
PrimaryWrite ==
    /\ pc = "primary_write"
    /\ sseOut' = Append(sseOut, PrimaryMessage(Head(pending)))
    /\ pending' = Tail(pending)
    /\ pc' = "primary_stream"
    /\ UNCHANGED <<client, rawBody, endpoints, payload, lastError, calls, reply, streamState,
                   upstreamLog, produced, fragLog, primaryError, chatError>>

PrimaryEndFallsBack ==
    /\ pc = "primary_stream"
    /\ \E failed \in BOOLEAN :
        IF failed
        THEN /\ lastError' = HTTPError(400)
             /\ AfterPrimary(HTTPError(400))
        ELSE /\ pc' = "done"
             /\ UNCHANGED <<lastError, calls, reply>>
    /\ UNCHANGED <<client, rawBody, endpoints, payload, sseOut, streamState, pending,
                   upstreamLog, produced, fragLog, primaryError, chatError>>

\* The upstream stream ends, or reading it raises inside the streamSSE
\* callback: the handler has returned the streamSSE response by then, so its
\* catch block (lines 479-486) is not reached.
PrimaryEnd ==
    /\ pc = "primary_stream"
    /\ \E failed \in BOOLEAN : pc' = IF failed THEN "aborted" ELSE "done"
    /\ UNCHANGED <<client, rawBody, endpoints, payload, lastError, calls, reply, sseOut,
                   streamState, pending, upstreamLog, produced, fragLog,
                   primaryError, chatError>>

\* createChatCompletions returns an object with choices.
ChatReturnsObjectFrom(domain) ==
    /\ pc = "await_chat"
    /\ \E chatResponse \in domain :
        /\ upstreamLog' = <<chatResponse>>
        /\ reply' = JsonReply(translateChatResponseToResponses(chatResponse))
    /\ pc' = "done"
    /\ UNCHANGED <<client, rawBody, endpoints, payload, lastError, calls, sseOut, streamState,
                   pending, produced, fragLog, primaryError, chatError>>

ChatReturnsObject == ChatReturnsObjectFrom(ChatResponses)

\* createChatCompletions returns a stream: streamSSE(c, ...) with a new streamState.
ChatReturnsStream ==
    /\ pc = "await_chat"
    /\ reply' = SseReply
    /\ streamState' = NewStreamState
    /\ pc' = "fallback_stream"
    /\ UNCHANGED <<client, rawBody, endpoints, payload, lastError, calls, sseOut, pending,
                   upstreamLog, produced, fragLog, primaryError, chatError>>

FallbackFailureReplyLastError(error, last) == ForwardError(last)

\* The fallback's catch block: forwardError(c, error).
FallbackFailureReply(error, last) == ForwardError(error)

\* createChatCompletions raises.
ChatFails ==
    /\ pc = "await_chat"
    /\ \E error \in Errors :
        /\ chatError' = error
        /\ reply' = FallbackFailureReply(error, lastError)
    /\ pc' = "done"
    /\ UNCHANGED <<client, rawBody, endpoints, payload, lastError, calls, sseOut, streamState,
                   pending, upstreamLog, produced, fragLog, primaryError>>

ChunkResultErrorEvent(chunk, state) ==
    IF Truthy(chunk.data) /\ chunk.data # "[DONE]" /\ JSONparse(chunk.data).ok
    THEN LET r == translateChatChunkToResponsesEvents(JSONparse(chunk.data).value, state)
         IN  [st |-> r.st, evs |-> IF r.threw THEN <<>> ELSE r.evs, frags |-> <<>>]
    ELSE [st |-> state, evs |-> <<[type |-> "error"]>>, frags |-> <<>>]

\* The events to write for a chunk and the state it leaves: nothing for a
\* chunk without data, a [DONE] chunk, a chunk JSON.parse rejects, or a chunk
\* the reducer raises on (the catch block drops what it had collected).
ChunkResult(chunk, state) ==
    IF Truthy(chunk.data) /\ chunk.data # "[DONE]" /\ JSONparse(chunk.data).ok
    THEN LET r == translateChatChunkToResponsesEvents(JSONparse(chunk.data).value, state)
         IN  [st |-> r.st,
              evs |-> IF r.threw THEN <<>> ELSE r.evs,
              frags |-> [i \in 1..Len(r.frags) |->
                            IF r.threw
                            THEN [r.frags[i] EXCEPT !.events = 0, !.added = <<>>]
                            ELSE r.frags[i]]]
    ELSE [st |-> state, evs |-> <<>>, frags |-> <<>>]

\* for await (const chunk of chatResponse): the next chunk arrives and is
\* translated; its events are then written one by one.
FallbackPullFrom(domain, limit) ==
    /\ pc = "fallback_stream"
    /\ Len(upstreamLog) < limit
    /\ \E chunk \in domain :
        LET r == ChunkResult(chunk, streamState)
            n == Len(upstreamLog) + 1
        IN  /\ upstreamLog' = Append(upstreamLog, chunk)
            /\ streamState' = r.st
            /\ pending' = r.evs
            /\ produced' = produced \o [i \in 1..Len(r.evs) |-> [chunk |-> n, event |-> r.evs[i]]]
            /\ fragLog' = fragLog \o r.frags
            /\ pc' = IF r.evs = <<>> THEN "fallback_stream" ELSE "fallback_write"
    /\ UNCHANGED <<client, rawBody, endpoints, payload, lastError, calls, reply, sseOut,
                   primaryError, chatError>>

NextEventLast(events) == events[Len(events)]

\* The event of the current chunk that is written next.
NextEvent(events) == Head(events)

RestEvents(events) == Tail(events)

\* await stream.writeSSE({ data: JSON.stringify(event) })
FallbackWrite ==
    /\ pc = "fallback_write"
    /\ sseOut' = Append(sseOut, [data |-> JSONstringify(NextEvent(pending))])
    /\ pending' = RestEvents(pending)
    /\ pc' = IF RestEvents(pending) = <<>> THEN "fallback_stream" ELSE "fallback_write"
    /\ UNCHANGED <<client, rawBody, endpoints, payload, lastError, calls, reply, streamState,
                   upstreamLog, produced, fragLog, primaryError, chatError>>

\* The upstream stream ends, or reading it raises inside the streamSSE callback.
FallbackEnd ==
    /\ pc = "fallback_stream"
    /\ \E failed \in BOOLEAN : pc' = IF failed THEN "aborted" ELSE "done"
    /\ UNCHANGED <<client, rawBody, endpoints, payload, lastError, calls, reply, sseOut,
                   streamState, pending, upstreamLog, produced, fragLog,
                   primaryError, chatError>>

\* The client disconnects while a streamSSE callback is running.  Neither
\* loop tests the connection (no stream.onAbort, no stream.aborted), so the
\* handler's own state is left as it is.
ClientCloses ==
    /\ pc \in {"primary_stream", "primary_write", "fallback_stream", "fallback_write"}
    /\ client.open
    /\ client' = [open |-> FALSE, pulledAtClose |-> Len(upstreamLog)]
    /\ UNCHANGED <<pc, rawBody, endpoints, payload, lastError, calls, reply, sseOut,
                   streamState, pending, upstreamLog, produced, fragLog,
                   primaryError, chatError>>

FallbackPull == FallbackPullFrom(CtlChunks, MaxCtlChunks)

Next ==
    \/ CheckRateLimit
    \/ ParseBody
    \/ Sanitize
    \/ TryPrimary
    \/ SkipPrimary
    \/ ResponsesReturnsObject
    \/ ResponsesReturnsStream
    \/ ResponsesFails
    \/ PrimaryPull
    \/ PrimaryWrite
    \/ PrimaryEnd
    \/ ChatReturnsObject
    \/ ChatReturnsStream
    \/ ChatFails
    \/ FallbackPull
    \/ FallbackWrite
    \/ FallbackEnd
    \/ ClientCloses

Spec == Init /\ [][Next]_vars

(***************************************************************************)
(* The fallback stream loop on its own, for every chunk of Chunks: the     *)
(* handler has been refused by /responses with a 400 and createChat-       *)
(* Completions has returned a stream.                                      *)
(***************************************************************************)
StreamPayload == Payload(<<UserHi>>, Undefined, TRUE)

StreamInit ==
    /\ pc = "fallback_stream"
    /\ rawBody = [valid |-> TRUE, payload |-> StreamPayload]
    /\ endpoints = [known |-> FALSE, list |-> {}]
    /\ payload = StreamPayload
    /\ lastError = HTTPError(400)
    /\ calls = <<ResponsesCall(StreamPayload),
                 ChatCall(translateResponsesToChatPayload(StreamPayload))>>
    /\ reply = SseReply
    /\ sseOut = <<>>
    /\ streamState = NewStreamState
    /\ pending = <<>>
    /\ upstreamLog = <<>>
    /\ produced = <<>>
    /\ fragLog = <<>>
    /\ primaryError = HTTPError(400)
    /\ chatError = NoError
    /\ client = Connected

StreamPull == FallbackPullFrom(Chunks, MaxChunks)

StreamNext == StreamPull \/ FallbackWrite \/ FallbackEnd

StreamSpec == StreamInit /\ [][StreamNext]_vars

(***************************************************************************)
(* The sanitizer and the request translation on their own, for every input *)
(* sequence over Items: the handler has parsed the body.                   *)
(***************************************************************************)
SanInit ==
    /\ pc = "sanitize"
    /\ \E input \in SeqsUpTo(Items, MaxInput) :
        /\ payload = Payload(input, Undefined, FALSE)
        /\ rawBody = [valid |-> TRUE, payload |-> Payload(input, Undefined, FALSE)]
    /\ endpoints = [known |-> FALSE, list |-> {}]
    /\ lastError = NoError
    /\ calls = <<>>
    /\ reply = NoReply
    /\ sseOut = <<>>
    /\ streamState = NewStreamState
    /\ pending = <<>>
    /\ upstreamLog = <<>>
    /\ produced = <<>>
    /\ fragLog = <<>>
    /\ primaryError = NoError
    /\ chatError = NoError
    /\ client = Connected

SanNext == Sanitize \/ TryPrimary \/ ResponsesFails

SanSpec == SanInit /\ [][SanNext]_vars

(***************************************************************************)
(* The translation of one user or assistant message, for every content of  *)
(* Contents: the handler has parsed the body.                               *)
(***************************************************************************)
ContentInit ==
    /\ pc = "sanitize"
    /\ \E role \in {"user", "assistant"}, content \in Contents :
        /\ payload = Payload(<<RoleItem(role, content)>>, Undefined, FALSE)
        /\ rawBody = [valid |-> TRUE,
                      payload |-> Payload(<<RoleItem(role, content)>>, Undefined, FALSE)]
    /\ endpoints = [known |-> FALSE, list |-> {}]
    /\ lastError = NoError
    /\ calls = <<>>
    /\ reply = NoReply
    /\ sseOut = <<>>
    /\ streamState = NewStreamState
    /\ pending = <<>>
    /\ upstreamLog = <<>>
    /\ produced = <<>>
    /\ fragLog = <<>>
    /\ primaryError = NoError
    /\ chatError = NoError
    /\ client = Connected

ContentSpec == ContentInit /\ [][SanNext]_vars

(***************************************************************************)
(* The request translation for every input sequence over TransItems, with  *)
(* and without instructions: the handler has parsed the body.              *)
(***************************************************************************)
TransInit ==
    /\ pc = "sanitize"
    /\ \E input \in SeqsUpTo(TransItems, MaxTransInput),
          instructions \in {Undefined, "", "be brief"} :
        /\ payload = Payload(input, instructions, FALSE)
        /\ rawBody = [valid |-> TRUE, payload |-> Payload(input, instructions, FALSE)]
    /\ endpoints = [known |-> FALSE, list |-> {}]
    /\ lastError = NoError
    /\ calls = <<>>
    /\ reply = NoReply
    /\ sseOut = <<>>
    /\ streamState = NewStreamState
    /\ pending = <<>>
    /\ upstreamLog = <<>>
    /\ produced = <<>>
    /\ fragLog = <<>>
    /\ primaryError = NoError
    /\ chatError = NoError
    /\ client = Connected

TransSpec == TransInit /\ [][SanNext]_vars

(***************************************************************************)
(* The non-streaming fallback reply on its own, for every response of       *)
(* AllChatResponses: the handler has been refused by /responses with a 400  *)
(* and awaits createChatCompletions.                                        *)
(***************************************************************************)
RespPayload == Payload(<<UserHi>>, Undefined, FALSE)

RespInit ==
    /\ pc = "await_chat"
    /\ rawBody = [valid |-> TRUE, payload |-> RespPayload]
    /\ endpoints = [known |-> FALSE, list |-> {}]
    /\ payload = RespPayload
    /\ lastError = HTTPError(400)
    /\ calls = <<ResponsesCall(RespPayload),
                 ChatCall(translateResponsesToChatPayload(RespPayload))>>
    /\ reply = NoReply
    /\ sseOut = <<>>
    /\ streamState = NewStreamState
    /\ pending = <<>>
    /\ upstreamLog = <<>>
    /\ produced = <<>>
    /\ fragLog = <<>>
    /\ primaryError = HTTPError(400)
    /\ chatError = NoError
    /\ client = Connected

RespNext == ChatReturnsObjectFrom(AllChatResponses)

RespSpec == RespInit /\ [][RespNext]_vars

(***************************************************************************)
(* Properties.                                                             *)
(***************************************************************************)
Called(endpoint) == \E i \in 1..Len(calls) : calls[i].endpoint = endpoint

CountCalls(endpoint) == Cardinality({i \in 1..Len(calls) : calls[i].endpoint = endpoint})

ChatOnly == endpoints.known /\ endpoints.list = {"/chat/completions"}

NeitherEndpoint ==
    endpoints.known /\ endpoints.list \cap {"/responses", "/chat/completions"} = {}

\* C1: for a model that lists only /chat/completions, a handler that has
\* replied has not called /responses, has called /chat/completions exactly
\* once with the translated payload, and has not replied "unsupported model".
C1_ChatOnlyModelIsServed ==
    (ChatOnly /\ rawBody.valid /\ pc = "done") =>
        /\ ~Called("/responses")
        /\ CountCalls("/chat/completions") = 1
        /\ calls = <<ChatCall(translateResponsesToChatPayload(payload))>>
        /\ reply # UnsupportedModel

\* C2: once createResponses has failed, /chat/completions is called iff the
\* failure is an HTTPError with status 400, 404 or 422 and the model supports
\* /chat/completions; otherwise the handler is done with the original error
\* forwarded.
C2_FallbackIffEligible ==
    primaryError # NoError =>
        LET eligible ==
                /\ primaryError.kind = "HTTPError"
                /\ primaryError.status \in {400, 404, 422}
                /\ (~endpoints.known \/ "/chat/completions" \in endpoints.list)
        IN  /\ Called("/chat/completions") <=> eligible
            /\ ~eligible =>
                  /\ pc = "done"
                  /\ reply = ForwardError(primaryError)
                  /\ calls = <<ResponsesCall(payload)>>

C2_Witness ==
    /\ primaryError = HTTPError(404)
    /\ pc = "await_chat"
    /\ calls = <<ResponsesCall(payload), ChatCall(translateResponsesToChatPayload(payload))>>

IsOutput(item) == item.type = "function_call_output"

IsCall(item) == item.type = "function_call"

Sanitized == pc \notin {"rate_limit", "parse", "sanitize", "thrown"} /\ rawBody.valid

PrimarySucceeded ==
    /\ Called("/responses")
    /\ primaryError = NoError
    /\ pc # "await_responses"

\* C4: after createResponses has succeeded, /chat/completions is not called
\* and nothing is translated: the JSON reply is the upstream object, and the
\* SSE messages written are the upstream chunks, unchanged and in arrival
\* order, all of them once the loop is back at its head.
C4_PrimarySuccessPassesThrough ==
    PrimarySucceeded =>
        /\ ~Called("/chat/completions")
        /\ produced = <<>>
        /\ streamState = NewStreamState
        /\ reply.kind \in {"json", "sse"}
        /\ reply.kind = "json" => upstreamLog = <<reply.body>> /\ sseOut = <<>>
        /\ reply.kind = "sse" =>
              /\ IsPrefix(sseOut, upstreamLog)
              /\ Len(upstreamLog) - Len(sseOut) = Len(pending)
              /\ pc # "primary_write" => sseOut = upstreamLog

C4_Witness ==
    /\ PrimarySucceeded
    /\ pc = "done"
    /\ reply = SseReply
    /\ Len(sseOut) = 2
    /\ sseOut[1] # sseOut[2]

\* C5: for a body that is not JSON, or a model that lists neither endpoint,
\* no upstream call is ever made and the reply, once given, is a 400 error.
C5_NoCallAndStatus400 ==
    (~rawBody.valid \/ NeitherEndpoint) =>
        /\ calls = <<>>
        /\ pc \in {"rate_limit", "parse", "sanitize", "select", "done", "thrown"}
        /\ pc = "done" => reply.kind = "error" /\ reply.status = 400
        /\ pc # "done" => reply = NoReply

C5_Witness ==
    /\ rawBody.valid
    /\ NeitherEndpoint
    /\ pc = "done"
    /\ reply = UnsupportedModel

\* C6: once createChatCompletions has failed, the handler is done, the reply
\* forwards that error, and the calls made are the primary call and the one
\* fallback call.
C6_FallbackFailureIsTerminal ==
    chatError # NoError =>
        /\ pc = "done"
        /\ reply = ForwardError(chatError)
        /\ calls = <<ResponsesCall(payload), ChatCall(translateResponsesToChatPayload(payload))>>

C6_Witness ==
    /\ chatError = HTTPError(500)
    /\ primaryError = HTTPError(400)
    /\ reply = ForwardError(HTTPError(500))

\* C7: each endpoint is called at most once, and /responses is never called
\* after /chat/completions.
C7_EachEndpointOnceInOrder ==
    /\ CountCalls("/responses") <= 1
    /\ CountCalls("/chat/completions") <= 1
    /\ \A i, j \in 1..Len(calls) :
          (i < j /\ calls[i].endpoint = "/chat/completions") =>
              calls[j].endpoint # "/responses"

C7_Witness ==
    /\ Len(calls) = 2
    /\ calls[1].endpoint = "/responses"
    /\ calls[2].endpoint = "/chat/completions"
    /\ pc = "done"

IsJsonChunk(chunk) ==
    Truthy(chunk.data) /\ chunk.data # "[DONE]" /\ JSONparse(chunk.data).ok

CreatedWritten ==
    {i \in 1..Len(sseOut) : sseOut[i].data.json.type = "response.created"}

\* C8: on a fallback stream, when the loop is back at its head after at
\* least one JSON chunk, exactly one response.created has been written and
\* it is the first message written.
C8_CreatedOnceAndFirst ==
    (pc = "fallback_stream" /\ \E i \in 1..Len(upstreamLog) : IsJsonChunk(upstreamLog[i])) =>
        /\ Cardinality(CreatedWritten) = 1
        /\ sseOut[1].data.json.type = "response.created"

SameToolCall(f, g) == f.choice = g.choice /\ f.index = g.index

\* C9: when a fragment's events are emitted and that fragment or an earlier
\* one of the same tool call (same choice, same index) carried an id, the
\* events reference that id; the placeholder is referenced only when no
\* fragment so far carried an id for that index.
C9_EventsReferenceRealId ==
    \A j \in 1..Len(fragLog) :
        fragLog[j].events > 0 =>
            /\ \A k \in 1..j :
                  (SameToolCall(fragLog[k], fragLog[j]) /\ Truthy(fragLog[k].id)) =>
                      fragLog[j].ref = fragLog[k].id
            /\ fragLog[j].ref = Placeholder(fragLog[j].index) =>
                  \A k \in 1..j :
                      fragLog[k].index = fragLog[j].index => ~Truthy(fragLog[k].id)

\* C10: the messages written are the events the reducer returned, in the
\* order returned (chunk by chunk); the events of every chunk before the
\* latest one pulled are all written, and at the head of the loop nothing is
\* left to write.
C10_WrittenInOrderBeforeNextPull ==
    /\ Len(sseOut) <= Len(produced)
    /\ \A i \in 1..Len(sseOut) : sseOut[i] = [data |-> JSONstringify(produced[i].event)]
    /\ \A i, j \in 1..Len(produced) : i < j => produced[i].chunk <= produced[j].chunk
    /\ \A i \in 1..Len(produced) :
          produced[i].chunk < Len(upstreamLog) => i <= Len(sseOut)
    /\ pc = "fallback_stream" => Len(sseOut) = Len(produced)

\* Two chunks with events have been pulled, the first with two events.
C10_Witness ==
    /\ pc = "fallback_write"
    /\ Len(sseOut) = 2
    /\ Len(produced) = 3
    /\ produced[2].chunk = 1
    /\ produced[3].chunk = 2

\* C11: once the client's connection has closed before the upstream stream
\* ended, the handler stops pulling promptly: at most the chunk that was in
\* flight at that moment is still read from the upstream stream, and no chunk
\* read before is passed on a second time.
C11_StopsPullingAfterClose ==
    ~client.open =>
        /\ Len(upstreamLog) <= client.pulledAtClose + 1
        /\ Len(sseOut) <= Len(upstreamLog) + Len(produced)

\* An output item of the input whose call_id no function_call of the input carries.
IsOrphanOf(item, input) ==
    /\ IsOutput(item)
    /\ \A j \in 1..Len(input) : IsCall(input[j]) => input[j].call_id # item.call_id

ToolMessages(messages) == SelectSeq(messages, LAMBDA m : m.role = "tool")

\* C13: the sanitized input is the original input with exactly the orphan
\* function_call_output items deleted, every other item kept in its original
\* order; and the payload sent to /chat/completions has one tool message per
\* kept output, in order, and so none for an orphan.
C13_ExactlyOrphansDeleted ==
    Sanitized =>
        LET original == rawBody.payload.input
            kept == SelectSeq(original, LAMBDA item : ~IsOrphanOf(item, original))
        IN  /\ payload.input = kept
            /\ \A i \in 1..Len(calls) :
                  calls[i].endpoint = "/chat/completions" =>
                      LET tools == ToolMessages(calls[i].payload.messages)
                          outputs == SelectSeq(kept, IsOutput)
                      IN  /\ Len(tools) = Len(outputs)
                          /\ \A k \in 1..Len(tools) :
                                /\ tools[k].tool_call_id = outputs[k].call_id
                                /\ \E j \in 1..Len(original) :
                                      /\ IsCall(original[j])
                                      /\ original[j].call_id = tools[k].tool_call_id

\* An orphan has been deleted between two kept items, and the fallback payload
\* carries the tool message of the kept output.
C13_Witness ==
    /\ pc = "await_chat"
    /\ Len(rawBody.payload.input) = 3
    /\ IsCall(rawBody.payload.input[1])
    /\ IsOrphanOf(rawBody.payload.input[2], rawBody.payload.input)
    /\ IsOutput(rawBody.payload.input[3])
    /\ payload.input = <<rawBody.payload.input[1], rawBody.payload.input[3]>>
    /\ Len(ToolMessages(calls[2].payload.messages)) = 1

NonEmpty(content) == content # Undefined /\ content # ""

\* The number of output items a choice accounts for.
ItemsOf(choice) ==
    (IF NonEmpty(choice.message.content) THEN 1 ELSE 0) + Len(choice.message.tool_calls)

\* The number of output items the choices before choice number c account for.
RECURSIVE ItemsBefore(_, _)
ItemsBefore(choices, c) ==
    IF c <= 1 THEN 0 ELSE ItemsBefore(choices, c - 1) + ItemsOf(choices[c - 1])

\* C14: in the reply translated from a Chat-Completions object, the output
\* is, choice after choice, a message item exactly when the choice's content
\* is non-empty, immediately followed by one function_call item per tool call
\* of that choice in tool-call order, and nothing else; every item and the
\* response have status "completed".
C14_OutputItemsPerChoice ==
    (pc = "done" /\ reply.kind = "json" /\ Called("/chat/completions")) =>
        LET choices == upstreamLog[1].choices
            out == reply.body.output
        IN  /\ reply.body.status = "completed"
            /\ \A i \in 1..Len(out) : out[i].status = "completed"
            /\ Len(out) = ItemsBefore(choices, Len(choices) + 1)
            /\ \A c \in 1..Len(choices) :
                  LET message == choices[c].message
                      first == ItemsBefore(choices, c)
                      m == IF NonEmpty(message.content) THEN 1 ELSE 0
                  IN  /\ NonEmpty(message.content) =>
                            /\ out[first + 1].type = "message"
                            /\ out[first + 1].content =
                                   <<[type |-> "output_text", text |-> message.content]>>
                      /\ \A t \in 1..Len(message.tool_calls) :
                            /\ out[first + m + t].type = "function_call"
                            /\ out[first + m + t].call_id = message.tool_calls[t].id
                            /\ out[first + m + t].name = message.tool_calls[t].name
                            /\ out[first + m + t].arguments = message.tool_calls[t].arguments

\* A choice with text and two tool calls, then a choice with empty content
\* and one tool call: four output items.
C14_Witness ==
    /\ pc = "done"
    /\ reply.kind = "json"
    /\ Called("/chat/completions")
    /\ Len(upstreamLog[1].choices) = 2
    /\ upstreamLog[1].choices[1].message.content = "hello"
    /\ Len(upstreamLog[1].choices[1].message.tool_calls) = 2
    /\ upstreamLog[1].choices[2].message.content = ""
    /\ Len(upstreamLog[1].choices[2].message.tool_calls) = 1
    /\ Len(reply.body.output) = 4

\* C15: the reducer raises on no JSON chunk, whatever the accumulator holds,
\* and the events it had determined are forwarded: the first JSON chunk of a
\* stream, even one without choices or with a choice without delta, has its
\* response.created among the events handed to the write loop.
C15_ReducerNeverRaises ==
    /\ pc = "fallback_stream" =>
          \A chunk \in Chunks :
              IsJsonChunk(chunk) =>
                  ~translateChatChunkToResponsesEvents(JSONparse(chunk.data).value,
                                                       streamState).threw
    /\ \A n \in 1..Len(upstreamLog) :
          (IsJsonChunk(upstreamLog[n]) /\ \A k \in 1..(n - 1) : ~IsJsonChunk(upstreamLog[k])) =>
              \E i \in 1..Len(produced) :
                  /\ produced[i].chunk = n
                  /\ produced[i].event.type = "response.created"

\* The fragments so far of the tool call of fragment number j that carried a
\* function name.
NamedFragments(j) ==
    {k \in 1..Len(fragLog) : SameToolCall(fragLog[k], fragLog[j]) /\ Truthy(fragLog[k].name)}

\* C16: of the fragments of one tool call (same choice, same index), exactly
\* the first that carries a function name emits response.output_item.added,
\* with that name and empty arguments; no other fragment of it emits one.
C16_OneItemAddedPerToolCall ==
    \A j \in 1..Len(fragLog) :
        LET first == CHOOSE k \in NamedFragments(j) : \A l \in NamedFragments(j) : k <= l
        IN  IF NamedFragments(j) # {} /\ j = first
            THEN /\ Len(fragLog[j].added) = 1
                 /\ fragLog[j].added[1].item.name = fragLog[j].name
                 /\ fragLog[j].added[1].item.arguments = ""
            ELSE fragLog[j].added = <<>>

TextDeltas == {i \in 1..Len(produced) : produced[i].event.type = "response.output_text.delta"}

\* C17: every response.output_text.delta event comes from a choice of its
\* chunk with that text, carries that choice's index c as output_index and
\* the item id msg_<R>_<c>, R being the response id the accumulator recorded
\* from the first chunk; so the text deltas of one choice share one item id.
C17_TextDeltaItemId ==
    /\ \A i \in TextDeltas :
          LET event == produced[i].event
              choices == JSONparse(upstreamLog[produced[i].chunk].data).value.choices
          IN  /\ \E k \in 1..Len(choices) :
                    /\ choices[k].index = event.output_index
                    /\ choices[k].delta.content = event.delta
              /\ event.item_id =
                     "msg_" \o streamState.responseId \o "_" \o ToString(event.output_index)
    /\ \A i, j \in TextDeltas :
          produced[i].event.output_index = produced[j].event.output_index =>
              produced[i].event.item_id = produced[j].event.item_id

\* C18: the id that the events of a tool-call fragment carry was learned
\* from a fragment of the same choice's tool call (this one or an earlier
\* one), or is the placeholder; it is never an id that only a fragment of
\* another choice carried.
C18_NoIdFromOtherChoice ==
    \A j \in 1..Len(fragLog) :
        fragLog[j].events > 0 =>
            \/ fragLog[j].ref = Placeholder(fragLog[j].index)
            \/ \E k \in 1..j :
                  /\ SameToolCall(fragLog[k], fragLog[j])
                  /\ fragLog[k].id = fragLog[j].ref

CompletedOf(n) ==
    {i \in 1..Len(produced) :
        produced[i].chunk = n /\ produced[i].event.type = "response.completed"}

FinishedChoices(chunk) ==
    {k \in 1..Len(chunk.choices) : Truthy(chunk.choices[k].finish_reason)}

\* C19: for every JSON chunk pulled, before or after a response.completed
\* has been emitted, the reducer emits one response.completed per choice of
\* the chunk whose finish_reason is non-null and none for the other choices.
C19_CompletedPerFinishedChoice ==
    \A n \in 1..Len(upstreamLog) :
        IsJsonChunk(upstreamLog[n]) =>
            Cardinality(CompletedOf(n)) =
                Cardinality(FinishedChoices(JSONparse(upstreamLog[n].data).value))

\* The accumulator and the events that result from feeding chunks, one after
\* the other, to the loop body, starting from run.
RECURSIVE Replay(_, _)
Replay(chunks, run) ==
    IF chunks = <<>> THEN run
    ELSE LET r == ChunkResult(Head(chunks), run.st)
         IN  Replay(Tail(chunks), [st |-> r.st, evs |-> run.evs \o r.evs])

LastPulled == upstreamLog[Len(upstreamLog)]

\* C20: on a fallback stream the step that pulls a chunk without data, a
\* [DONE] chunk or a chunk that is not JSON emits nothing, leaves the
\* accumulator as it was and returns to the head of the loop; the
\* accumulator and the events of the whole stream are those of the stream
\* with these chunks left out, so the chunks after them are translated as if
\* they had not been there.
C20_ControlChunksSkipped ==
    /\ [](LET run == Replay(SelectSeq(upstreamLog, IsJsonChunk),
                            [st |-> NewStreamState, evs |-> <<>>])
          IN  /\ streamState = run.st
              /\ [i \in 1..Len(produced) |-> produced[i].event] = run.evs)
    /\ [][(upstreamLog' # upstreamLog /\ ~IsJsonChunk(LastPulled')) =>
              /\ streamState' = streamState
              /\ produced' = produced
              /\ sseOut' = sseOut
              /\ pending' = <<>>
              /\ pc' = "fallback_stream"]_vars

\* A [DONE] chunk and a chunk that is not JSON have been skipped, and the
\* chunk after them has been translated into response.created and a delta.
C20_Witness ==
    /\ Len(upstreamLog) = 3
    /\ upstreamLog[1].data = "[DONE]"
    /\ upstreamLog[2].data = "not json"
    /\ upstreamLog[3].data = "{text0}"
    /\ Len(produced) = 2
    /\ produced[2].chunk = 3
    /\ pc = "fallback_stream"
    /\ Len(sseOut) = 2

TextParts(parts) == {i \in 1..Len(parts) : parts[i].type \in {"input_text", "output_text"}}

Images(parts) == SelectSeq(parts, LAMBDA p : p.type = "input_image")

\* C21: in the payload sent to /chat/completions, the content of the message
\* translated from a user or assistant item is: for a content array with a
\* text part, the text of the first text part; for one without, the
\* image-url parts of its input_image parts in order, file parts dropped;
\* and null (not an empty string) for an empty array, an array of file parts
\* only, or an empty string.
C21_ContentReduction ==
    \A n \in 1..Len(calls) :
        (calls[n].endpoint = "/chat/completions" /\ Len(payload.input) = 1
         /\ payload.input[1].role \in {"user", "assistant"}) =>
            LET content == payload.input[1].content
                result == calls[n].payload.messages[1].content
                parts == content.parts
            IN  /\ Len(calls[n].payload.messages) = 1
                /\ (content.isStr /\ content.text = "") => result = NullContent
                /\ (content.isStr /\ content.text # "") => result = StringContent(content.text)
                /\ (~content.isStr /\ TextParts(parts) # {}) =>
                      \E i \in TextParts(parts) :
                          /\ \A j \in TextParts(parts) : i <= j
                          /\ result = StringContent(parts[i].text)
                /\ (~content.isStr /\ TextParts(parts) = {} /\ Len(Images(parts)) > 0) =>
                      /\ result.kind = "parts"
                      /\ Len(result.parts) = Len(Images(parts))
                      /\ \A i \in 1..Len(result.parts) :
                            /\ result.parts[i].type = "image_url"
                            /\ result.parts[i].image_url.url = Images(parts)[i].image_url
                /\ (~content.isStr /\ TextParts(parts) = {} /\ Len(Images(parts)) = 0) =>
                      /\ result = NullContent
                      /\ result # StringContent("")

\* An image, then a text part: the message's content is the text.
C21_Witness ==
    /\ pc = "await_chat"
    /\ payload.input = <<RoleItem("user", PartsContent(<<ImagePart("u1"), TextPart("output_text", "b")>>))>>
    /\ calls[2].payload.messages[1].content = StringContent("b")

\* An item that has a role, or is a function_call or a function_call_output.
Translatable(item) ==
    item.role # Undefined \/ item.type \in {"function_call", "function_call_output"}

\* C22: the messages of the payload sent to /chat/completions are a leading
\* system message when instructions is given (and not empty), followed, in
\* input order, by exactly one message per item with a role (same role), per
\* function_call (assistant, null content, one tool call with id = call_id)
\* and per function_call_output (tool, tool_call_id = call_id); an
\* item_reference contributes no message.
C22_OneMessagePerItemInOrder ==
    \A n \in 1..Len(calls) :
        calls[n].endpoint = "/chat/completions" =>
            LET messages == calls[n].payload.messages
                lead == IF payload.instructions \notin {Undefined, ""} THEN 1 ELSE 0
                items == SelectSeq(payload.input, Translatable)
            IN  /\ Len(messages) = lead + Len(items)
                /\ lead = 1 => messages[1] = Message("system", StringContent(payload.instructions))
                /\ \A i \in 1..Len(items) :
                      LET m == messages[lead + i]
                          item == items[i]
                      IN  /\ item.role # Undefined => m.role = item.role
                          /\ (item.role = Undefined /\ item.type = "function_call") =>
                                /\ m.role = "assistant"
                                /\ m.content = NullContent
                                /\ Len(m.tool_calls) = 1
                                /\ m.tool_calls[1].id = item.call_id
                          /\ (item.role = Undefined /\ item.type = "function_call_output") =>
                                /\ m.role = "tool"
                                /\ m.tool_call_id = item.call_id

\* Instructions, a function_call, an item_reference and the call's output:
\* a system, an assistant and a tool message, in that order.
C22_Witness ==
    /\ pc = "await_chat"
    /\ payload.instructions = "be brief"
    /\ payload.input = <<FunctionCall("a", "foo", "{}"), ItemReference("ref_1"),
                         FunctionCallOutput("a", StrContent("1"))>>
    /\ Len(calls[2].payload.messages) = 3
    /\ calls[2].payload.messages[3].role = "tool"

\* C23: once createResponses has returned a stream and the SSE reply has
\* started, whatever happens while the stream is read (its end, or a failure
\* of the read) the handler stays in the pass-through loop or ends: no error
\* is recorded for the fallback and /chat/completions is never called.
C23_StreamFailureNoFallback ==
    (reply = SseReply /\ primaryError = NoError) =>
        /\ pc \in {"primary_stream", "primary_write", "done", "aborted"}
        /\ lastError = NoError
        /\ calls = <<ResponsesCall(payload)>>

\* Reading the primary stream failed after one chunk had been passed on.
C23_Witness ==
    /\ pc = "aborted"
    /\ reply = SseReply
    /\ primaryError = NoError
    /\ Len(upstreamLog) = 1
    /\ sseOut = upstreamLog
    /\ calls = <<ResponsesCall(payload)>>

====
